---- MODULE Spec2Model ----
(***************************************************************************)
(* Model of regex_parser.py: the date normaliser format_date, the          *)
(* heuristic field extractor extract_fields_unlabeled and the batch loop   *)
(* of main.  Text, file names and field values are sequences of            *)
(* one-character strings, so that the regular expressions, str.strip,      *)
(* str.lower, str.endswith, sorted and ", ".join are computed character by *)
(* character.                                                              *)
(***************************************************************************)
EXTENDS Integers, Sequences, FiniteSets, TLC

VARIABLES pc, text, filename, data, calls, value, env, result, entries, idx, resultados

vars == <<pc, text, filename, data, calls, value, env, result, entries, idx, resultados>>

(***************************************************************************)
(* Characters and strings                                                  *)
(***************************************************************************)
Range(s) == {s[i] : i \in 1..Len(s)}

UpperSeq == <<"A","B","C","D","E","F","G","H","I","J","K","L","M","N","O","P","Q","R","S","T","U","V","W","X","Y","Z">>

LowerSeq == <<"a","b","c","d","e","f","g","h","i","j","k","l","m","n","o","p","q","r","s","t","u","v","w","x","y","z">>

DigitSeq == <<"0","1","2","3","4","5","6","7","8","9">>

UpperLetters == Range(UpperSeq)

LowerLetters == Range(LowerSeq)

Letters == UpperLetters \cup LowerLetters

Digits == Range(DigitSeq)

UpperIndex == [c \in UpperLetters |-> CHOOSE i \in 1..26 : UpperSeq[i] = c]

LowerIndex == [c \in LowerLetters |-> CHOOSE i \in 1..26 : LowerSeq[i] = c]

DigitValue == [c \in Digits |-> (CHOOSE i \in 1..10 : DigitSeq[i] = c) - 1]

\* ord(c): the code point, which is what sorted() compares strings by
Ord(c) ==
    IF c \in UpperLetters THEN 64 + UpperIndex[c]
    ELSE IF c \in LowerLetters THEN 96 + LowerIndex[c]
    ELSE IF c \in Digits THEN 48 + DigitValue[c]
    ELSE CASE c = "\t" -> 9 [] c = "\n" -> 10 [] c = " " -> 32 [] c = "," -> 44
           [] c = "-" -> 45 [] c = "." -> 46 [] c = "/" -> 47

\* \s of the re module, within the characters of the model
Whitespace == {" ", "\t", "\n"}

\* str.lower on one character
LowerCh(c) == IF c \in UpperLetters THEN LowerSeq[UpperIndex[c]] ELSE c

\* str.lower
LowerStr(s) == [i \in 1..Len(s) |-> LowerCh(s[i])]

\* str.endswith
EndsWith(s, suf) == Len(s) >= Len(suf) /\ SubSeq(s, Len(s) - Len(suf) + 1, Len(s)) = suf

\* str.strip: drop the leading and the trailing whitespace
Strip(s) ==
    LET keep == {i \in 1..Len(s) : s[i] \notin Whitespace}
    IN  IF keep = {} THEN <<>>
        ELSE SubSeq(s, CHOOSE i \in keep : \A j \in keep : i <= j,
                       CHOOSE i \in keep : \A j \in keep : i >= j)

\* sep.join(parts)
RECURSIVE Join(_, _)
Join(parts, sep) ==
    IF parts = <<>> THEN <<>>
    ELSE IF Len(parts) = 1 THEN parts[1]
    ELSE parts[1] \o sep \o Join(Tail(parts), sep)

\* the < of Python strings: lexicographic by code point
RECURSIVE StrLess(_, _)
StrLess(a, b) ==
    IF b = <<>> THEN FALSE
    ELSE IF a = <<>> THEN TRUE
    ELSE IF a[1] = b[1] THEN StrLess(Tail(a), Tail(b))
    ELSE Ord(a[1]) < Ord(b[1])

\* sorted(S) of a set of strings
RECURSIVE SortedSeq(_)
SortedSeq(S) ==
    IF S = {} THEN <<>>
    ELSE LET m == CHOOSE x \in S : \A y \in S \ {x} : StrLess(x, y)
         IN  <<m>> \o SortedSeq(S \ {m})

\* str(n) for n >= 0
RECURSIVE IntToStr(_)
IntToStr(n) ==
    IF n < 10 THEN <<DigitSeq[n + 1]>>
    ELSE IntToStr(n \div 10) \o <<DigitSeq[(n % 10) + 1]>>

\* zero padding to a width, as %m, %d and a padded %Y print
RECURSIVE ZeroPad(_, _)
ZeroPad(s, w) == IF Len(s) >= w THEN s ELSE ZeroPad(<<"0">> \o s, w)

\* int(s) of a string of decimal digits
RECURSIVE StrToInt(_)
StrToInt(s) ==
    IF s = <<>> THEN 0
    ELSE 10 * StrToInt(SubSeq(s, 1, Len(s) - 1)) + DigitValue[s[Len(s)]]

AllIn(s, S) == \A i \in 1..Len(s) : s[i] \in S

NA == <<"N","/","A">>

InvalidDate == <<"I","n","v","a","l","i","d"," ","D","a","t","e">>

(***************************************************************************)
(* Calendar arithmetic of datetime and timedelta (proleptic Gregorian      *)
(* ordinals, 0001-01-01 is day 1), used by format_date at lines 67-69      *)
(***************************************************************************)
IsLeap(y) == y % 4 = 0 /\ (y % 100 # 0 \/ y % 400 = 0)

DaysInMonth(y, m) ==
    IF m = 2 THEN (IF IsLeap(y) THEN 29 ELSE 28)
    ELSE IF m \in {4, 6, 9, 11} THEN 30 ELSE 31

DaysBeforeMonth == <<0, 31, 59, 90, 120, 151, 181, 212, 243, 273, 304, 334>>

\* date.fromordinal: the year, month and day of ordinal n
Ord2Ymd(n) ==
    LET n0   == n - 1
        n400 == n0 \div 146097
        r400 == n0 % 146097
        n100 == r400 \div 36524
        r100 == r400 % 36524
        n4   == r100 \div 1461
        r4   == r100 % 1461
        n1   == r4 \div 365
        r1   == r4 % 365
        year == n400 * 400 + 1 + n100 * 100 + n4 * 4 + n1
        leap == n1 = 3 /\ (n4 # 24 \/ n100 = 3)
        m0   == (r1 + 50) \div 32
        pre0 == DaysBeforeMonth[m0] + (IF m0 > 2 /\ leap THEN 1 ELSE 0)
        month == IF pre0 > r1 THEN m0 - 1 ELSE m0
        pre  == DaysBeforeMonth[month] + (IF month > 2 /\ leap THEN 1 ELSE 0)
    IN  IF n1 = 4 \/ n100 = 4 THEN <<year - 1, 12, 31>>
        ELSE <<year, month, r1 - pre + 1>>

\* datetime(1899, 12, 30).toordinal(): the serial-date epoch of line 67
EpochOrdinal ==
    LET y == 1899 - 1
    IN  y * 365 + y \div 4 - y \div 100 + y \div 400 + DaysBeforeMonth[12] + 30

\* datetime.max.toordinal(): 9999-12-31; datetime.min is ordinal 1
MaxOrdinal == 9999 * 365 + 9999 \div 4 - 9999 \div 100 + 9999 \div 400

\* strftime("%Y-%m-%d").  %m and %d are always two digits.  %Y of a year
\* below 1000 is zero-padded to four digits only where the C library pads
\* it (padYear); elsewhere it prints the bare year number.
Strftime(ymd, padYear) ==
    (IF padYear THEN ZeroPad(IntToStr(ymd[1]), 4) ELSE IntToStr(ymd[1]))
        \o <<"-">> \o ZeroPad(IntToStr(ymd[2]), 2) \o <<"-">> \o ZeroPad(IntToStr(ymd[3]), 2)

(***************************************************************************)
(* pd.to_datetime(value, errors='coerce') on a string (line 71), for the   *)
(* written forms the extractor's patterns capture and the ISO form: a day  *)
(* with an optional ordinal suffix, "of", a month name and a year; three   *)
(* numbers separated by / or -; YYYY-MM-DD.  Any other string is NaT.      *)
(***************************************************************************)
\* str.split(): the maximal runs of non-whitespace characters
RECURSIVE Words(_)
Words(s) ==
    IF s = <<>> THEN <<>>
    ELSE IF s[1] \in Whitespace THEN Words(Tail(s))
    ELSE LET stops == {i \in 1..Len(s) : s[i] \in Whitespace}
             e == IF stops = {} THEN Len(s) + 1 ELSE CHOOSE i \in stops : \A j \in stops : i <= j
         IN  <<SubSeq(s, 1, e - 1)>> \o Words(SubSeq(s, e, Len(s)))

MonthNames == << <<"j","a","n","u","a","r","y">>, <<"f","e","b","r","u","a","r","y">>, <<"m","a","r","c","h">>, <<"a","p","r","i","l">>, <<"m","a","y">>, <<"j","u","n","e">>, <<"j","u","l","y">>,
                 <<"a","u","g","u","s","t">>, <<"s","e","p","t","e","m","b","e","r">>, <<"o","c","t","o","b","e","r">>, <<"n","o","v","e","m","b","e","r">>, <<"d","e","c","e","m","b","e","r">> >>

\* the month a name or its three-letter abbreviation stands for, 0 if none
MonthOf(w) ==
    LET lw == LowerStr(w)
        hits == {m \in 1..12 : lw = MonthNames[m] \/ lw = SubSeq(MonthNames[m], 1, 3)}
    IN  IF lw = <<"s","e","p","t">> THEN 9
        ELSE IF hits = {} THEN 0 ELSE CHOOSE m \in hits : TRUE

OrdinalSuffixes == { <<>>, <<"s","t">>, <<"n","d">>, <<"r","d">>, <<"t","h">> }

NoDate == <<>>

ValidYmd(y, m, d) == y >= 1 /\ y <= 9999 /\ m \in 1..12 /\ d >= 1 /\ d <= DaysInMonth(y, m)

\* a two-digit year is placed within fifty years of the current year
ConvertYear(y, thisYear) ==
    LET c == y + (thisYear \div 100) * 100
    IN  IF c >= thisYear + 50 THEN c - 100
        ELSE IF c < thisYear - 50 THEN c + 100 ELSE c

\* "11th of March 1986"
ParseOrdinalDate(s) ==
    LET ws == Words(s)
    IN  IF Len(ws) # 4 THEN NoDate
        ELSE LET nd == IF Len(ws[1]) >= 2 /\ ws[1][2] \in Digits THEN 2 ELSE 1
                 dstr == SubSeq(ws[1], 1, nd)
                 suf == LowerStr(SubSeq(ws[1], nd + 1, Len(ws[1])))
                 m == MonthOf(ws[3])
             IN  IF /\ AllIn(dstr, Digits) /\ Len(ws[1]) >= 1
                    /\ suf \in OrdinalSuffixes
                    /\ LowerStr(ws[2]) = <<"o","f">>
                    /\ Len(ws[4]) = 4 /\ AllIn(ws[4], Digits)
                    /\ ValidYmd(StrToInt(ws[4]), m, StrToInt(dstr))
                 THEN <<StrToInt(ws[4]), m, StrToInt(dstr)>>
                 ELSE NoDate

\* "12/05/1920", "13-5-86": month first, day first when the first number
\* cannot be a month, year first when it cannot be a day
ParseDelimitedDate(s, thisYear) ==
    LET seps == {i \in 1..Len(s) : s[i] \in {"/", "-"}}
    IN  IF Cardinality(seps) # 2 THEN NoDate
        ELSE LET i1 == CHOOSE i \in seps : \A j \in seps : i <= j
                 i2 == CHOOSE i \in seps : \A j \in seps : i >= j
                 as == SubSeq(s, 1, i1 - 1)
                 bs == SubSeq(s, i1 + 1, i2 - 1)
                 cs == SubSeq(s, i2 + 1, Len(s))
                 a == StrToInt(as)
                 b == StrToInt(bs)
                 c == StrToInt(cs)
                 century == Len(as) > 2 \/ Len(bs) > 2 \/ Len(cs) > 2
                 ymd == IF a > 31 THEN <<a, b, c>>
                        ELSE IF a > 12 THEN <<c, b, a>> ELSE <<c, a, b>>
                 y == IF ymd[1] < 100 /\ ~century THEN ConvertYear(ymd[1], thisYear) ELSE ymd[1]
             IN  IF /\ Len(as) \in 1..2 /\ Len(bs) \in 1..2 /\ Len(cs) \in 2..4
                    /\ AllIn(as \o bs \o cs, Digits)
                    /\ ValidYmd(y, ymd[2], ymd[3])
                 THEN <<y, ymd[2], ymd[3]>>
                 ELSE NoDate

\* "1986-03-11"
ParseIsoDate(s) ==
    IF /\ Len(s) = 10 /\ s[5] = "-" /\ s[8] = "-"
       /\ AllIn(SubSeq(s, 1, 4) \o SubSeq(s, 6, 7) \o SubSeq(s, 9, 10), Digits)
       /\ ValidYmd(StrToInt(SubSeq(s, 1, 4)), StrToInt(SubSeq(s, 6, 7)), StrToInt(SubSeq(s, 9, 10)))
    THEN <<StrToInt(SubSeq(s, 1, 4)), StrToInt(SubSeq(s, 6, 7)), StrToInt(SubSeq(s, 9, 10))>>
    ELSE NoDate

\* whether a date is one a nanosecond Timestamp can hold (1677-09-22 .. 2262-04-11)
InTimestampBounds(ymd) ==
    LET k == ymd[1] * 10000 + ymd[2] * 100 + ymd[3]
    IN  k >= 16770922 /\ k <= 22620411

\* the parsed Timestamp as <<year, month, day>>, or NoDate for NaT
ToDatetime(s, thisYear) ==
    LET t == IF ParseIsoDate(s) # NoDate THEN ParseIsoDate(s)
             ELSE IF ParseOrdinalDate(s) # NoDate THEN ParseOrdinalDate(s)
             ELSE ParseDelimitedDate(s, thisYear)
    IN  IF t # NoDate /\ InTimestampBounds(t) THEN t ELSE NoDate

(***************************************************************************)
(* format_date (lines 52-76).  A value is a string [k |-> "str", s], a     *)
(* finite number n / Den [k |-> "num", n], or one of "nan", "inf", "ninf"  *)
(* (float) and "bigint" (an int beyond the range of float).  The           *)
(* environment e holds what the platform decides: padYear (how %Y prints   *)
(* a year below 1000) and thisYear (the current year).                     *)
(***************************************************************************)
Den == 2

YearLo == 1800

YearHi == 2100

StrVal(s) == [k |-> "str", n |-> 0, s |-> s]

NumVal(n) == [k |-> "num", n |-> n, s |-> <<>>]

SpecialVal(k) == [k |-> k, n |-> 0, s |-> <<>>]

\* mutant of InYearRange: the upper end is excluded
InYearRangeExclusive(v) == v.k = "num" /\ YearLo * Den <= v.n /\ v.n < YearHi * Den

\* 1800 <= value <= 2100 (line 64): false for nan, the infinities and a huge int
InYearRange(v) == v.k = "num" /\ YearLo * Den <= v.n /\ v.n <= YearHi * Den

\* base + timedelta(days=float(value)) and strftime (lines 67-69); float(),
\* timedelta() and the addition raise on nan, inf, a huge int and a date outside
\* 0001-01-01 .. 9999-12-31, which the except clause turns into "Invalid Date"
SerialDate(v, e) ==
    IF v.k # "num" THEN InvalidDate
    ELSE LET o == EpochOrdinal + (v.n \div Den)
         IN  IF o < 1 \/ o > MaxOrdinal THEN InvalidDate
             ELSE Strftime(Ord2Ymd(o), e.padYear)

FormatDate(v, e) ==
    IF v.k # "str"
    THEN IF InYearRange(v) THEN IntToStr(v.n \div Den) \o <<"-","0","1","-","0","1">>
         ELSE SerialDate(v, e)
    ELSE LET parsed == ToDatetime(v.s, e.thisYear)
         IN  IF parsed = NoDate THEN InvalidDate
             ELSE Strftime(parsed, TRUE)

(***************************************************************************)
(* The schema (lines 10-50) and the record: a Python dict, kept as the     *)
(* sequence of its <<key, value>> items in insertion order                  *)
(***************************************************************************)
required_fields ==
    << "Name", "Date of Birth", "Place of Birth", "Date of Interview",
       "Location of Interview", "Parent's Names", "Parent's Birthplace",
       "Parent's Occupation", "Siblings", "Spouse's Name", "Children's Names",
       "Grandchildren's Names", "Date of Immigration", "Country of Origin",
       "Reason for Immigration", "Mode of Travel", "Ports of Entry", "Destinations",
       "Occupation", "Employer", "Job Title", "Education Level", "Schools Attended",
       "Year of Graduation", "Health Issues", "Medical Treatments", "Cause of Death",
       "Church Affiliation", "Community Involvement", "Social Activities",
       "Language Spoken", "Cultural Practices", "Historical Events Experienced",
       "Geographical Locations", "Notes", "Sources" >>

\* mutant of date_fields: the interview date is not listed
date_fields_without_interview == << "Date of Birth", "Date of Immigration", "Year of Graduation" >>

date_fields == << "Date of Birth", "Date of Interview", "Date of Immigration", "Year of Graduation" >>

Keys(d) == [i \in 1..Len(d) |-> d[i][1]]

HasKey(d, k) == \E i \in 1..Len(d) : d[i][1] = k

\* d[k]
DictGet(d, k) == d[CHOOSE i \in 1..Len(d) : d[i][1] = k][2]

\* mutant of DictSet: the key is deleted and inserted again, so it moves to the end
DictSetMoveToEnd(d, k, v) == Append(SelectSeq(d, LAMBDA it : it[1] # k), <<k, v>>)

\* d[k] = v: an existing key keeps its place, a new key is added at the end
DictSet(d, k, v) ==
    IF HasKey(d, k)
    THEN [i \in 1..Len(d) |-> IF d[i][1] = k THEN <<k, v>> ELSE d[i]]
    ELSE Append(d, <<k, v>>)

\* { field: "N/A" for field in required_fields } (line 111)
InitialData == [i \in 1..Len(required_fields) |-> <<required_fields[i], NA>>]

(***************************************************************************)
(* The regular expressions of extract_fields_unlabeled, matched as the re  *)
(* module matches them: leftmost start, greedy quantifiers, backtracking.  *)
(* Every pattern is compiled with re.IGNORECASE, under which a literal and *)
(* the class [A-Z] match a letter of either case.                          *)
(***************************************************************************)
\* the literal lit, case-insensitively, at position i of t
MatchCI(t, i, lit) ==
    /\ i >= 1 /\ i + Len(lit) - 1 <= Len(t)
    /\ \A j \in 1..Len(lit) : LowerCh(t[i + j - 1]) = LowerCh(lit[j])

\* the position after the longest run of characters of S that starts at i
RunEnd(t, i, S) ==
    IF \A j \in i..Len(t) : t[j] \in S THEN (IF i > Len(t) THEN i ELSE Len(t) + 1)
    ELSE CHOOSE j \in i..Len(t) : t[j] \notin S /\ \A k \in i..(j - 1) : t[k] \in S

\* the least element of a set of positions, 0 when it is empty
Leftmost(P) == IF P = {} THEN 0 ELSE CHOOSE i \in P : \A j \in P : i <= j

NoMatch == <<>>

\* \s+of\s+[A-Za-z]+\s+\d{4} at q: the position after the match, or 0
DateTail(t, q) ==
    LET a == RunEnd(t, q, Whitespace)
        c == RunEnd(t, a + 2, Whitespace)
        d == RunEnd(t, c, Letters)
        e == RunEnd(t, d, Whitespace)
    IN  IF /\ a > q /\ MatchCI(t, a, <<"o","f">>) /\ c > a + 2 /\ d > c /\ e > d
           /\ e + 3 <= Len(t) /\ AllIn(SubSeq(t, e, e + 3), Digits)
        THEN e + 4 ELSE 0

\* (?:st|nd|rd|th)? and the tail at q: the suffix is tried first
DateSuffixed(t, q) ==
    LET withSuffix == IF \E suf \in OrdinalSuffixes \ {<<>>} : MatchCI(t, q, suf)
                      THEN DateTail(t, q + 2) ELSE 0
    IN  IF withSuffix # 0 THEN withSuffix ELSE DateTail(t, q)

\* (\d{1,2}(?:st|nd|rd|th)?\s+of\s+[A-Za-z]+\s+\d{4}) at p: two digits are tried
\* before one
DateEnd(t, p) ==
    LET two == IF p + 1 <= Len(t) /\ t[p] \in Digits /\ t[p + 1] \in Digits
               THEN DateSuffixed(t, p + 2) ELSE 0
        one == IF p <= Len(t) /\ t[p] \in Digits THEN DateSuffixed(t, p + 1) ELSE 0
    IN  IF two # 0 THEN two ELSE one

\* re.search(r'interview.*?(...)', text, re.IGNORECASE | re.DOTALL) (lines
\* 116-118): group 1 as <<first, last>>, or NoMatch.  The first "interview"
\* that a date follows starts the match; .*? stops at the nearest date.
InterviewDateMatch(t) ==
    LET dates == {p \in 1..Len(t) : DateEnd(t, p) # 0}
        s == Leftmost({i \in 1..Len(t) : MatchCI(t, i, <<"i","n","t","e","r","v","i","e","w">>)
                                          /\ \E p \in dates : p >= i + 9})
        p == Leftmost({q \in dates : q >= s + 9})
    IN  IF s = 0 THEN NoMatch ELSE <<p, DateEnd(t, p) - 1>>

\* (?:\s+[A-Z][a-zA-Z]+)* after a word that ends before e: the position after
\* the last word taken
RECURSIVE MoreWords(_, _)
MoreWords(t, e) ==
    LET w == RunEnd(t, e, Whitespace)
        l == RunEnd(t, w, Letters)
    IN  IF w > e /\ l - w >= 2 THEN MoreWords(t, l) ELSE e

\* interview with\s+([A-Z][a-zA-Z]+(?:\s+[A-Z][a-zA-Z]+)+) at s: group 1
NameAt(t, s) ==
    LET a == RunEnd(t, s + 14, Whitespace)
        b == RunEnd(t, a, Letters)
        e == MoreWords(t, b)
    IN  IF MatchCI(t, s, <<"i","n","t","e","r","v","i","e","w"," ","w","i","t","h">>) /\ a > s + 14 /\ b - a >= 2 /\ e > b
        THEN <<a, e - 1>> ELSE NoMatch

\* re.search of the Name pattern (lines 123-125)
NameMatch(t) ==
    LET s == Leftmost({i \in 1..Len(t) : NameAt(t, i) # NoMatch})
    IN  IF s = 0 THEN NoMatch ELSE NameAt(t, s)

\* (\d{1,2}[/-]\d{1,2}[/-]\d{2,4}) at q: group 1
DobNumbers(t, q) ==
    LET e1 == RunEnd(t, q, Digits)
        e2 == RunEnd(t, e1 + 1, Digits)
        e3 == RunEnd(t, e2 + 1, Digits)
        last == IF e3 - (e2 + 1) > 4 THEN e2 + 4 ELSE e3 - 1
    IN  IF /\ e1 - q \in 1..2 /\ e1 <= Len(t) /\ t[e1] \in {"/", "-"}
           /\ e2 - (e1 + 1) \in 1..2 /\ e2 <= Len(t) /\ t[e2] \in {"/", "-"}
           /\ e3 - (e2 + 1) >= 2
        THEN <<q, last>> ELSE NoMatch

\* born (?:on\s+)?(...) at s: the optional "on" is tried first
DobAt(t, s) ==
    LET q == s + 5
        w == RunEnd(t, q + 2, Whitespace)
        withOn == IF MatchCI(t, q, <<"o","n">>) /\ w > q + 2 THEN DobNumbers(t, w) ELSE NoMatch
    IN  IF ~MatchCI(t, s, <<"b","o","r","n"," ">>) THEN NoMatch
        ELSE IF withOn # NoMatch THEN withOn ELSE DobNumbers(t, q)

\* re.search of the Date of Birth pattern (line 130)
DobMatch(t) ==
    LET s == Leftmost({i \in 1..Len(t) : DobAt(t, i) # NoMatch})
    IN  IF s = 0 THEN NoMatch ELSE DobAt(t, s)

\* born in\s+([A-Za-z\s]+)[\.,] at s: group 1.  \s+ gives back one whitespace
\* character when nothing else is left for the group.
PobAt(t, s) ==
    LET q == s + 7
        w == RunEnd(t, q, Whitespace)
        r == RunEnd(t, q, Letters \cup Whitespace)
    IN  IF /\ MatchCI(t, s, <<"b","o","r","n"," ","i","n">>) /\ w > q /\ r - q >= 2
           /\ r <= Len(t) /\ t[r] \in {".", ","}
        THEN <<(IF w = r THEN r - 1 ELSE w), r - 1>> ELSE NoMatch

\* re.search of the Place of Birth pattern (line 135)
PobMatch(t) ==
    LET s == Leftmost({i \in 1..Len(t) : PobAt(t, i) # NoMatch})
    IN  IF s = 0 THEN NoMatch ELSE PobAt(t, s)

\* (brother|sister)\s+([A-Z][a-zA-Z]+) at b: group 2
SiblingName(t, b) ==
    LET c == IF MatchCI(t, b, <<"b","r","o","t","h","e","r">>) THEN b + 7
             ELSE IF MatchCI(t, b, <<"s","i","s","t","e","r">>) THEN b + 6 ELSE 0
        d == RunEnd(t, c, Whitespace)
        e == RunEnd(t, d, Letters)
    IN  IF c # 0 /\ d > c /\ e - d >= 2 THEN <<d, e - 1>> ELSE NoMatch

\* my\s+(?:younger\s+)?(brother|sister)\s+([A-Z][a-zA-Z]+) at i: group 2
SiblingAt(t, i) ==
    LET a == RunEnd(t, i + 2, Whitespace)
        y == RunEnd(t, a + 7, Whitespace)
        withYounger == IF MatchCI(t, a, <<"y","o","u","n","g","e","r">>) /\ y > a + 7
                       THEN SiblingName(t, y) ELSE NoMatch
    IN  IF ~(MatchCI(t, i, <<"m","y">>) /\ a > i + 2) THEN NoMatch
        ELSE IF withYounger # NoMatch THEN withYounger ELSE SiblingName(t, a)

\* re.findall (line 140), group 2 of every match: the scan resumes after each match
RECURSIVE SiblingsFrom(_, _)
SiblingsFrom(t, i) ==
    LET s == Leftmost({j \in i..Len(t) : SiblingAt(t, j) # NoMatch})
        m == SiblingAt(t, s)
    IN  IF s = 0 THEN <<>>
        ELSE <<SubSeq(t, m[1], m[2])>> \o SiblingsFrom(t, m[2] + 1)

siblings_matches(t) == SiblingsFrom(t, 1)

\* re.search(lit, text, re.IGNORECASE): the first place, 0 if none
SearchCI(t, lit) == Leftmost({i \in 1..Len(t) : MatchCI(t, i, lit)})

\* (Salvation Army(?: training college)?) (line 146): group 1
ChurchMatch(t) ==
    LET s == SearchCI(t, <<"S","a","l","v","a","t","i","o","n"," ","A","r","m","y">>)
    IN  IF s = 0 THEN NoMatch
        ELSE IF MatchCI(t, s + 14, <<" ","t","r","a","i","n","i","n","g"," ","c","o","l","l","e","g","e">>) THEN <<s, s + 30>>
        ELSE <<s, s + 13>>

\* (John Deere) (line 151)
EmployerMatch(t) ==
    LET s == SearchCI(t, <<"J","o","h","n"," ","D","e","e","r","e">>)
    IN  IF s = 0 THEN NoMatch ELSE <<s, s + 9>>

\* (Salvation Army training college in Chicago) (line 156)
EducationMatch(t) ==
    LET s == SearchCI(t, <<"S","a","l","v","a","t","i","o","n"," ","A","r","m","y"," ","t","r","a","i","n","i","n","g"," ","c","o","l","l","e","g","e"," ","i","n"," ","C","h","i","c","a","g","o">>)
    IN  IF s = 0 THEN NoMatch ELSE <<s, s + 41>>

\* the gazetteer of line 162, in its order
Gazetteer ==
    << <<"C","a","l","i","f","o","r","n","i","a">>, <<"M","o","l","i","n","e">>, <<"C","a","m","p","b","e","l","l","s"," ","I","s","l","a","n","d">>, <<"C","h","i","c","a","g","o">>, <<"F","l","o","r","i","d","a">>, <<"S","w","e","d","e","n">> >>

\* the loop of lines 161-164
locations_found(t) == SelectSeq(Gazetteer, LAMBDA loc : SearchCI(t, loc) # 0)

\* match.group(1).strip()
Group(t, m) == Strip(SubSeq(t, m[1], m[2]))

(***************************************************************************)
(* The rules of extract_fields_unlabeled (lines 115-166), the Sources      *)
(* assignment (line 174) and the date loop (lines 177-179), each as the    *)
(* record it leaves                                                        *)
(***************************************************************************)
RuleDateOfInterview(d, t) ==
    LET m == InterviewDateMatch(t)
    IN  IF m # NoMatch THEN DictSet(d, "Date of Interview", Group(t, m)) ELSE d

RuleName(d, t) ==
    LET m == NameMatch(t)
    IN  IF m # NoMatch THEN DictSet(d, "Name", Group(t, m)) ELSE d

\* mutant of RuleDateOfBirth: the match is stored under another date field
RuleDateOfBirthAsImmigration(d, t) ==
    IF DobMatch(t) # NoMatch
    THEN DictSet(d, "Date of Immigration", Group(t, DobMatch(t)))
    ELSE d

RuleDateOfBirth(d, t) ==
    LET m == DobMatch(t)
    IN  IF m # NoMatch THEN DictSet(d, "Date of Birth", Group(t, m)) ELSE d

RulePlaceOfBirth(d, t) ==
    LET m == PobMatch(t)
    IN  IF m # NoMatch THEN DictSet(d, "Place of Birth", Group(t, m)) ELSE d

\* the orders in which iterating a set may yield its elements
SetOrders(S) ==
    {o \in [1..Cardinality(S) -> S] : \A i, j \in 1..Cardinality(S) : o[i] = o[j] => i = j}

\* siblings_names = {match[1] for match in siblings_matches} (line 142)
siblings_names(t) == Range(siblings_matches(t))

\* mutant of RuleSiblings: the list of matches is joined, not the set
RuleSiblingsList(d, t, order) ==
    IF siblings_matches(t) # <<>>
    THEN DictSet(d, "Siblings", Join(siblings_matches(t), <<","," ">>))
    ELSE d

\* lines 141-143; order is the order in which join iterates the set
RuleSiblings(d, t, order) ==
    IF siblings_matches(t) # <<>> THEN DictSet(d, "Siblings", Join(order, <<","," ">>)) ELSE d

RuleChurch(d, t) ==
    LET m == ChurchMatch(t)
    IN  IF m # NoMatch THEN DictSet(d, "Church Affiliation", Group(t, m)) ELSE d

RuleEmployer(d, t) ==
    LET m == EmployerMatch(t)
    IN  IF m # NoMatch THEN DictSet(d, "Employer", Group(t, m)) ELSE d

RuleSchools(d, t) ==
    LET m == EducationMatch(t)
    IN  IF m # NoMatch THEN DictSet(d, "Schools Attended", Group(t, m)) ELSE d

\* mutant of RuleLocations: the entries found are joined without sorting
RuleLocationsUnsorted(d, t) ==
    IF locations_found(t) # <<>>
    THEN DictSet(d, "Geographical Locations", Join(locations_found(t), <<","," ">>))
    ELSE d

\* lines 165-166: ", ".join(sorted(set(locations_found)))
RuleLocations(d, t) ==
    LET found == locations_found(t)
    IN  IF found # <<>>
        THEN DictSet(d, "Geographical Locations", Join(SortedSeq(Range(found)), <<","," ">>))
        ELSE d

\* data["Sources"] = filename (line 174)
AssignSources(d, fn) == DictSet(d, "Sources", fn)

\* mutant of NeedsFormat: the sentinels are not excluded
NeedsFormatAlways(v) == TRUE

\* data[field] not in ["N/A", "", "Invalid Date"] (line 178)
NeedsFormat(v) == v \notin {NA, <<>>, InvalidDate}

\* one iteration of the loop of lines 177-179
FormatField(d, f, e) ==
    IF NeedsFormat(DictGet(d, f))
    THEN DictSet(d, f, FormatDate(StrVal(DictGet(d, f)), e))
    ELSE d

\* the loop of lines 177-179 over the fields fs; each iteration works on the
\* record the one before it left
RECURSIVE FormatFields(_, _, _)
FormatFields(d, fs, e) ==
    IF fs = <<>> THEN d
    ELSE CHOOSE r \in {FormatFields(d2, Tail(fs), e) : d2 \in {FormatField(d, Head(fs), e)}} : TRUE

\* the calls of format_date that loop makes: the field, the argument, the result
RECURSIVE FormatCalls(_, _, _)
FormatCalls(d, fs, e) ==
    IF fs = <<>> THEN <<>>
    ELSE LET f == Head(fs)
             arg == StrVal(DictGet(d, f))
         IN  (IF NeedsFormat(DictGet(d, f))
              THEN <<[field |-> f, arg |-> arg, res |-> FormatDate(arg, e)]>>
              ELSE <<>>) \o FormatCalls(d, Tail(fs), e)

\* extract_fields_unlabeled(text, filename) as a whole (lines 110-181): the
\* statements in their order, each applied to the record the one before it left
extract_fields_unlabeled(t, fn, order, e) ==
    CHOOSE r \in
        { FormatFields(d10, date_fields, e) : d10 \in
        { AssignSources(d9, fn) : d9 \in
        { RuleLocations(d8, t) : d8 \in
        { RuleSchools(d7, t) : d7 \in
        { RuleEmployer(d6, t) : d6 \in
        { RuleChurch(d5, t) : d5 \in
        { RuleSiblings(d4, t, order) : d4 \in
        { RulePlaceOfBirth(d3, t) : d3 \in
        { RuleDateOfBirth(d2, t) : d2 \in
        { RuleName(d1, t) : d1 \in
        { RuleDateOfInterview(d0, t) : d0 \in {InitialData} } } } } } } } } } } } : TRUE

(***************************************************************************)
(* main (lines 183-219) and extract_text_from_pdf (lines 78-92).  A        *)
(* directory entry is [name, pages, failAt]: the texts of its pages (a     *)
(* .txt file has one, its content) and where reading it raises: 0 nowhere, *)
(* 1 on opening the file, k + 1 on extracting page k.                      *)
(***************************************************************************)
\* mutant of HasDocSuffix: the name is not lower-cased
HasDocSuffixCaseSensitive(name) == EndsWith(name, <<".","p","d","f">>) \/ EndsWith(name, <<".","t","x","t">>)

\* lower_filename.endswith((".pdf", ".txt")) (lines 192-193)
HasDocSuffix(name) ==
    EndsWith(LowerStr(name), <<".","p","d","f">>) \/ EndsWith(LowerStr(name), <<".","t","x","t">>)

\* the loop of lines 86-89 over the pages that are read before the failure
RECURSIVE PagesText(_, _)
PagesText(pages, n) ==
    IF n = 0 THEN <<>>
    ELSE PagesText(pages, n - 1) \o (IF pages[n] # <<>> THEN pages[n] \o <<"\n">> ELSE <<>>)

\* extract_text_from_pdf: the text gathered until an exception, which is caught
extract_text_from_pdf(e) ==
    PagesText(e.pages, IF e.failAt = 0 THEN Len(e.pages) ELSE e.failAt - 1)

\* lines 201-206: the content, or "" when open or read raises
ReadTxt(e) == IF e.failAt = 0 THEN e.pages[1] ELSE <<>>

\* lines 198-206
TextOf(e) ==
    IF EndsWith(LowerStr(e.name), <<".","p","d","f">>) THEN extract_text_from_pdf(e) ELSE ReadTxt(e)

(***************************************************************************)
(* The inputs of the model                                                 *)
(***************************************************************************)
\* the current year, which decides the century of a two-digit year
ThisYears == {2026, 2076}

Envs == [padYear : BOOLEAN, thisYear : ThisYears]

NumWindow == 2

\* numbers around which format_date is exercised: the ends of the year range,
\* the epoch, ordinary serial dates, a leap day, the first and the last date
\* datetime can hold, the first four-digit year
NumAnchors ==
    { YearLo, YearHi, 1925, 0, 60, 36585, 43831,
      1 - EpochOrdinal, MaxOrdinal - EpochOrdinal,
      (999 * 365 + 999 \div 4 - 999 \div 100 + 999 \div 400 + 1) - EpochOrdinal,
      -600000, 3000000 }

NumInputs ==
    { NumVal(a * Den + j) : a \in NumAnchors, j \in (0 - NumWindow * Den)..(NumWindow * Den) }

SpecialInputs == { SpecialVal(k) : k \in {"nan", "inf", "ninf", "bigint"} }

DateStrings ==
    { <<"n","o","t"," ","a"," ","d","a","t","e">>, <<>>, NA, InvalidDate,
      <<"1","1","t","h"," ","o","f"," ","M","a","r","c","h"," ","1","9","8","6">>, <<"1"," ","o","f"," ","M","a","y"," ","1","5","0","0">>, <<"3","1","s","t"," ","o","f"," ","F","e","b","r","u","a","r","y"," ","1","9","8","6">>,
      <<"3","R","D"," "," ","O","F","\n","s","e","p","t"," ","2","0","0","1">>, <<"1","1","t","h"," ","o","f"," ","S","m","a","r","c","h"," ","1","9","8","6">>,
      <<"1","2","/","0","5","/","1","9","2","0">>, <<"1","3","-","5","-","8","6">>, <<"4","5","/","1","2","/","2","0">>, <<"9","9","/","9","9","/","9","9","9","9">>, <<"1","/","2","/","1","9","2">>,
      <<"1","9","8","6","-","0","3","-","1","1">>, <<"2","0","2","0","-","0","2","-","3","0">>, <<"0","5","3","0","-","0","1","-","0","1">> }

DateInputs == NumInputs \cup SpecialInputs \cup { StrVal(s) : s \in DateStrings }

MaxFrags == 2

\* pieces of interview transcripts; a text is a concatenation of pieces
Fragments ==
    { <<"i","n","t","e","r","v","i","e","w"," ","w","i","t","h"," ","J","a","n","e"," ","M","a","r","y"," ","S","m","i","t","h">>,
      <<" ","w","h","o"," ","w","a","s"," ","b","o","r","n"," ","i","n"," ","S","t","o","c","k","h","o","l","m",","," ","S","w","e","d","e","n",".">>,
      <<"\n","I","n","t","e","r","v","i","e","w"," ","c","o","n","d","u","c","t","e","d"," ","1","1","t","h"," ","o","f"," ","M","a","r","c","h"," ","1","9","8","6">>,
      <<" ","b","o","r","n"," ","1","2","/","0","5","/","1","9","2","0"," ","o","n"," ","t","h","e"," ","3","1","s","t"," ","o","f"," ","F","e","b","r","u","a","r","y"," ","1","9","8","6">>,
      <<" ","B","o","r","n"," ","o","n"," "," ","1","3","-","5","-","8","6",","," ","m","y"," ","b","r","o","t","h","e","r"," ","J","o","h","n"," ","b","o","r","n"," ","i","n"," "," "," ",".">>,
      <<" ","m","y"," ","b","r","o","t","h","e","r"," ","J","o","h","n"," ","a","n","d"," ","m","y"," ","s","i","s","t","e","r"," ","M","a","r","y",".">>,
      <<" ","M","y"," ","y","o","u","n","g","e","r","\t","b","r","o","t","h","e","r"," ","j","o","h","n",","," ","C","a","m","p","b","e","l","l","s"," ","I","s","l","a","n","d",","," ","F","L","O","R","I","D","A",","," ","c","a","l","i","f","o","r","n","i","a">>,
      <<" ","w","o","r","k","e","d"," ","a","t"," ","J","O","H","N"," ","D","E","E","R","E"," ","i","n"," ","M","o","l","i","n","e",","," ","j","o","i","n","e","d"," ","t","h","e"," ","S","a","l","v","a","t","i","o","n"," ","A","r","m","y">>,
      <<" ","t","r","a","i","n","i","n","g"," ","c","o","l","l","e","g","e"," ","i","n"," ","C","h","i","c","a","g","o","."," ","I","N","T","E","R","V","I","E","W"," ","W","I","T","H"," ","A","l"," ","B",","," ","1"," ","o","f"," ","M","a","y"," ","1","5","0","0">>,
      <<"\n","n","o","t","h","i","n","g"," ","t","o"," ","s","e","e"," ","h","e","r","e"," ","4","2">> }

RECURSIVE TextsOf(_)
TextsOf(n) ==
    IF n = 0 THEN {<<>>}
    ELSE TextsOf(n - 1) \cup {a \o f : a \in TextsOf(n - 1), f \in Fragments}

Texts == TextsOf(MaxFrags)

Filenames == { <<"m","e","m","o",".","t","x","t">>, NA }

(***************************************************************************)
(* SpecExtract: one call of extract_fields_unlabeled, statement by         *)
(* statement.  pc names the line about to run.                             *)
(***************************************************************************)
\* the platform is consulted by format_date only, so it is drawn where the
\* loop of lines 177-179 calls it; until then env holds Unobserved
Unobserved == [padYear |-> FALSE, thisYear |-> 0]

InitExtract ==
    /\ pc = "L111"
    /\ text \in Texts
    /\ filename \in Filenames
    /\ env = Unobserved
    /\ data = <<>> /\ calls = <<>>
    /\ value = SpecialVal("none") /\ result = <<>>
    /\ entries = <<>> /\ idx = 1 /\ resultados = <<>>

Others == <<text, filename, calls, value, env, result, entries, idx, resultados>>

InitFields ==
    /\ pc = "L111" /\ data' = InitialData /\ pc' = "L116" /\ UNCHANGED Others

ApplyDateOfInterview ==
    /\ pc = "L116" /\ data' = RuleDateOfInterview(data, text) /\ pc' = "L123"
    /\ UNCHANGED Others

ApplyName ==
    /\ pc = "L123" /\ data' = RuleName(data, text) /\ pc' = "L130" /\ UNCHANGED Others

ApplyDateOfBirth ==
    /\ pc = "L130" /\ data' = RuleDateOfBirth(data, text) /\ pc' = "L135"
    /\ UNCHANGED Others

ApplyPlaceOfBirth ==
    /\ pc = "L135" /\ data' = RulePlaceOfBirth(data, text) /\ pc' = "L140"
    /\ UNCHANGED Others

ApplySiblings ==
    /\ pc = "L140"
    /\ \E order \in SetOrders(siblings_names(text)) :
           data' = RuleSiblings(data, text, order)
    /\ pc' = "L146" /\ UNCHANGED Others

ApplyChurch ==
    /\ pc = "L146" /\ data' = RuleChurch(data, text) /\ pc' = "L151" /\ UNCHANGED Others

ApplyEmployer ==
    /\ pc = "L151" /\ data' = RuleEmployer(data, text) /\ pc' = "L156" /\ UNCHANGED Others

ApplySchools ==
    /\ pc = "L156" /\ data' = RuleSchools(data, text) /\ pc' = "L161" /\ UNCHANGED Others

ApplyLocations ==
    /\ pc = "L161" /\ data' = RuleLocations(data, text) /\ pc' = "L174" /\ UNCHANGED Others

SetSources ==
    /\ pc = "L174" /\ data' = AssignSources(data, filename) /\ pc' = "L177"
    /\ UNCHANGED Others

NormalizeDates ==
    /\ pc = "L177"
    /\ \E e \in Envs :
           /\ env' = e
           /\ data' = FormatFields(data, date_fields, e)
           /\ calls' = FormatCalls(data, date_fields, e)
    /\ pc' = "done"
    /\ UNCHANGED <<text, filename, value, result, entries, idx, resultados>>

NextExtract ==
    \/ InitFields \/ ApplyDateOfInterview \/ ApplyName \/ ApplyDateOfBirth
    \/ ApplyPlaceOfBirth \/ ApplySiblings \/ ApplyChurch \/ ApplyEmployer
    \/ ApplySchools \/ ApplyLocations \/ SetSources \/ NormalizeDates

SpecExtract == InitExtract /\ [][NextExtract]_vars

MaxEntries == 3

\* what a directory may hold
Files ==
    LET p1 == <<"i","n","t","e","r","v","i","e","w"," ","w","i","t","h"," ","J","a","n","e"," ","M","a","r","y"," ","S","m","i","t","h">>
        p2 == <<"I","n","t","e","r","v","i","e","w"," ","h","e","l","d"," ","3","r","d"," ","o","f"," ","M","a","y"," ","1","9","8","6",","," ","b","o","r","n"," ","1","/","2","/","2","0">>
        p3 == <<"m","y"," ","s","i","s","t","e","r"," ","A","n","n",","," ","m","y"," ","b","r","o","t","h","e","r"," ","B","o","."," ","M","o","l","i","n","e">>
    IN  { [name |-> <<"a",".","p","d","f">>, pages |-> <<p1, <<>>, p2>>, failAt |-> k] : k \in {0, 1, 3} }
        \cup { [name |-> <<"B",".","P","D","F">>, pages |-> <<p3>>, failAt |-> k] : k \in {0, 2} }
        \cup { [name |-> <<"c",".","T","x","t">>, pages |-> <<p2>>, failAt |-> k] : k \in {0, 1} }
        \cup { [name |-> <<"d",".","c","s","v">>, pages |-> <<p1>>, failAt |-> 0],
               [name |-> <<"t","x","t">>, pages |-> <<p3>>, failAt |-> 0] }

\* os.listdir: up to MaxEntries entries with distinct names, in any order
Listings ==
    UNION { {l \in [1..n -> Files] : \A i, j \in 1..n : l[i].name = l[j].name => i = j}
            : n \in 0..MaxEntries }

(***************************************************************************)
(* SpecMain: the loop of main over one directory listing, an iteration at  *)
(* a time, and the export                                                  *)
(***************************************************************************)
InitMain ==
    /\ pc = "L191"
    /\ entries \in Listings
    /\ env \in Envs
    /\ idx = 1 /\ resultados = <<>>
    /\ text = <<>> /\ filename = <<>> /\ data = <<>> /\ calls = <<>>
    /\ value = SpecialVal("none") /\ result = <<>>

\* an iteration for a .pdf or .txt entry (lines 194-210)
ProcessEntry ==
    /\ pc = "L191" /\ idx <= Len(entries)
    /\ HasDocSuffix(entries[idx].name)
    /\ filename' = entries[idx].name
    /\ text' = TextOf(entries[idx])
    /\ \E order \in SetOrders(siblings_names(text')) :
           data' = extract_fields_unlabeled(text', filename', order, env)
    /\ resultados' = Append(resultados, data')
    /\ idx' = idx + 1
    /\ UNCHANGED <<pc, calls, value, env, result, entries>>

\* an iteration for any other entry
SkipEntry ==
    /\ pc = "L191" /\ idx <= Len(entries)
    /\ ~HasDocSuffix(entries[idx].name)
    /\ idx' = idx + 1
    /\ UNCHANGED <<pc, text, filename, data, calls, value, env, result, entries, resultados>>

\* lines 212-219: the rows are exported when there are any
Export ==
    /\ pc = "L191" /\ idx > Len(entries)
    /\ pc' = IF resultados # <<>> THEN "saved" ELSE "nothing"
    /\ UNCHANGED <<text, filename, data, calls, value, env, result, entries, idx, resultados>>

NextMain == ProcessEntry \/ SkipEntry \/ Export

SpecMain == InitMain /\ [][NextMain]_vars

(***************************************************************************)
(* SpecDate: one call of format_date on one input                          *)
(***************************************************************************)
InitDate ==
    /\ pc = "call"
    /\ value \in DateInputs
    /\ env \in Envs
    /\ result = <<>>
    /\ text = <<>> /\ filename = <<>> /\ data = <<>> /\ calls = <<>>
    /\ entries = <<>> /\ idx = 1 /\ resultados = <<>>

FormatDateCall ==
    /\ pc = "call"
    /\ result' = FormatDate(value, env)
    /\ pc' = "done"
    /\ UNCHANGED <<text, filename, data, calls, value, env, entries, idx, resultados>>

NextDate == FormatDateCall

SpecDate == InitDate /\ [][NextDate]_vars

(***************************************************************************)
(* Properties of format_date                                               *)
(***************************************************************************)
IsIsoDate(s) ==
    /\ Len(s) = 10 /\ s[5] = "-" /\ s[8] = "-"
    /\ AllIn(SubSeq(s, 1, 4) \o SubSeq(s, 6, 7) \o SubSeq(s, 9, 10), Digits)
    /\ StrToInt(SubSeq(s, 6, 7)) \in 1..12
    /\ StrToInt(SubSeq(s, 9, 10)) \in 1..31

\* the parts of s between the occurrences of the character c
RECURSIVE SplitOn(_, _)
SplitOn(s, c) ==
    LET hits == {i \in 1..Len(s) : s[i] = c}
    IN  IF hits = {} THEN <<s>>
        ELSE LET i == CHOOSE k \in hits : \A j \in hits : k <= j
             IN  <<SubSeq(s, 1, i - 1)>> \o SplitOn(SubSeq(s, i + 1, Len(s)), c)

\* date(y, m, d).toordinal(), by counting the days before the year and the month
Ymd2Ord(y, m, d) ==
    LET p == y - 1
        before == {k \in 1..12 : k < m}
        inMonths == IF m = 1 THEN 0
                    ELSE DaysBeforeMonth[m] + (IF m > 2 /\ IsLeap(y) THEN 1 ELSE 0)
    IN  p * 365 + p \div 4 - p \div 100 + p \div 400 + inMonths + d

\* r is the date of ordinal o written year-month-day, month and day in two
\* digits, the year in four digits when it is 1000 or later
WritesDate(r, o) ==
    LET parts == SplitOn(r, "-")
    IN  /\ Len(parts) = 3
        /\ \A i \in 1..3 : parts[i] # <<>> /\ AllIn(parts[i], Digits)
        /\ Len(parts[2]) = 2 /\ Len(parts[3]) = 2
        /\ StrToInt(parts[1]) >= 1000 => Len(parts[1]) = 4
        /\ ValidYmd(StrToInt(parts[1]), StrToInt(parts[2]), StrToInt(parts[3]))
        /\ Ymd2Ord(StrToInt(parts[1]), StrToInt(parts[2]), StrToInt(parts[3])) = o

\* C3 (as claimed): format_date returns, for every number and every string,
\* either a date of the form YYYY-MM-DD or exactly "Invalid Date".
C3_IsoOrInvalid == pc = "done" => (result = InvalidDate \/ IsIsoDate(result))

Started == pc # "L111"

\* C1: at every point of extract_fields_unlabeled after the record is built,
\* and in the record returned, the keys are exactly the 36 names of
\* required_fields in the order of required_fields.
C1_KeysAreSchema == Started => (Keys(data) = required_fields /\ Len(data) = 36)

\* C1 witness: a returned record that rules, the Sources assignment and the
\* date loop have all written to
C1_Witness ==
    /\ pc = "done"
    /\ DictGet(data, "Name") # NA
    /\ DictGet(data, "Sources") = filename
    /\ IsIsoDate(DictGet(data, "Date of Interview"))

\* no pattern of the extractor matches the text
NoRuleMatches(t) ==
    /\ InterviewDateMatch(t) = NoMatch /\ NameMatch(t) = NoMatch
    /\ DobMatch(t) = NoMatch /\ PobMatch(t) = NoMatch
    /\ siblings_matches(t) = <<>> /\ ChurchMatch(t) = NoMatch
    /\ EmployerMatch(t) = NoMatch /\ EducationMatch(t) = NoMatch
    /\ locations_found(t) = <<>>

\* C2: for a text in which no rule matches, the empty text included, the
\* returned record has "N/A" in every field except Sources, which is the
\* filename exactly.
C2_NoMatchAllSentinel ==
    (pc = "done" /\ NoRuleMatches(text)) =>
        \A i \in 1..Len(data) :
            data[i][2] = (IF data[i][1] = "Sources" THEN filename ELSE NA)

\* C2 witness: a non-empty text without any match has been extracted from
C2_Witness ==
    /\ pc = "done" /\ NoRuleMatches(text) /\ text # <<>>
    /\ filename = <<"m","e","m","o",".","t","x","t">> /\ DictGet(data, "Sources") = <<"m","e","m","o",".","t","x","t">>
    /\ DictGet(data, "Name") = NA

\* what the rule of a date field captures from the text, NoMatch if nothing
RawDate(f, t) ==
    IF f = "Date of Birth" THEN DobMatch(t)
    ELSE IF f = "Date of Interview" THEN InterviewDateMatch(t) ELSE NoMatch

\* C5: in the returned record each of the four date fields holds "N/A",
\* "Invalid Date" or a YYYY-MM-DD string; a date field that a rule filled was
\* passed to format_date once, with the matched text, and holds the result; a
\* date field left at "N/A" was not passed to format_date.
C5_DateFieldsNormalized ==
    pc = "done" =>
        \A f \in {"Date of Birth", "Date of Interview", "Date of Immigration", "Year of Graduation"} :
            LET v == DictGet(data, f)
                cs == SelectSeq(calls, LAMBDA c : c.field = f)
                m == RawDate(f, text)
            IN  /\ v = NA \/ v = InvalidDate \/ IsIsoDate(v)
                /\ IF m # NoMatch
                   THEN /\ Len(cs) = 1
                        /\ cs[1].arg = StrVal(SubSeq(text, m[1], m[2]))
                        /\ v = cs[1].res
                        /\ v # SubSeq(text, m[1], m[2])
                   ELSE cs = <<>> /\ v = NA

\* C5 witness: the interview date was found and normalised, the birth date
\* was not found
C5_Witness ==
    /\ pc = "done"
    /\ DictGet(data, "Date of Interview") = <<"1","9","8","6","-","0","3","-","1","1">>
    /\ DictGet(data, "Date of Birth") = NA
    /\ Len(calls) = 1

\* the entry occurs in the text, case-insensitively
Occurs(loc, t) ==
    LET lt == LowerStr(t)
        ll == LowerStr(loc)
    IN  \E i \in 1..(Len(lt) - Len(ll) + 1) :
            lt[i] = ll[1] /\ SubSeq(lt, i, i + Len(ll) - 1) = ll

\* C7: in the returned record Geographical Locations is "N/A" when no gazetteer entry occurs in the
\* text; otherwise it is the ", "-joined list of the entries that occur, each
\* once, in ascending order, in the gazetteer's spelling.
C7_LocationsSorted ==
    pc = "done" =>
        LET ascending == << <<"C","a","l","i","f","o","r","n","i","a">>, <<"C","a","m","p","b","e","l","l","s"," ","I","s","l","a","n","d">>, <<"C","h","i","c","a","g","o">>,
                            <<"F","l","o","r","i","d","a">>, <<"M","o","l","i","n","e">>, <<"S","w","e","d","e","n">> >>
            present == SelectSeq(ascending, LAMBDA loc : Occurs(loc, text))
        IN  DictGet(data, "Geographical Locations") =
                (IF present = <<>> THEN NA ELSE Join(present, <<","," ">>))

\* C7 witness: Sweden is mentioned before Chicago
C7_Witness ==
    /\ pc = "done"
    /\ DictGet(data, "Geographical Locations") = <<"C","h","i","c","a","g","o",","," ","S","w","e","d","e","n">>
    /\ SearchCI(text, <<"S","w","e","d","e","n">>) < SearchCI(text, <<"C","h","i","c","a","g","o">>)

\* the parts of s between the occurrences of ", "
RECURSIVE SplitCommaSpace(_)
SplitCommaSpace(s) ==
    LET hits == {i \in 1..(Len(s) - 1) : s[i] = "," /\ s[i + 1] = " "}
    IN  IF hits = {} THEN <<s>>
        ELSE LET i == CHOOSE k \in hits : \A j \in hits : k <= j
             IN  <<SubSeq(s, 1, i - 1)>> \o SplitCommaSpace(SubSeq(s, i + 2, Len(s)))

\* C8: when the text has a sibling mention, the returned Siblings is the ", "-join of the
\* captured names: its parts, as a set, are the names captured over the whole
\* text, and each name appears exactly once (names that differ in case are
\* different names).
C8_SiblingsDistinct ==
    pc = "done" =>
        LET matches == siblings_matches(text)
            parts == SplitCommaSpace(DictGet(data, "Siblings"))
            names == {matches[i] : i \in 1..Len(matches)}
        IN  matches # <<>> =>
                /\ Range(parts) = names
                /\ Len(parts) = Cardinality(names)

\* C8 witness: three mentions, one name mentioned twice
C8_Witness ==
    /\ pc = "done"
    /\ Len(siblings_matches(text)) = 3
    /\ Range(SplitCommaSpace(DictGet(data, "Siblings"))) = { <<"J","o","h","n">>, <<"M","a","r","y">> }

\* C9 (as claimed): when the Name rule matches, every word of the returned Name begins
\* with an uppercase letter.
C9_NameWordsCapitalised ==
    (pc = "done" /\ NameMatch(text) # NoMatch) =>
        \A i \in 1..Len(Words(DictGet(data, "Name"))) :
            Words(DictGet(data, "Name"))[i][1] \in UpperLetters

\* C10: only ten fields ever differ from "N/A"; Date of Immigration and Year
\* of Graduation stay "N/A" and are never passed to format_date, which is
\* only called with a string.
C10_OnlyTenFields ==
    Started =>
        /\ \A i \in 1..Len(data) :
               data[i][1] \notin {"Name", "Date of Birth", "Place of Birth", "Date of Interview",
                                  "Siblings", "Church Affiliation", "Employer",
                                  "Schools Attended", "Geographical Locations", "Sources"}
                   => data[i][2] = NA
        /\ \A i \in 1..Len(calls) :
               /\ calls[i].field \in {"Date of Birth", "Date of Interview"}
               /\ calls[i].arg.k = "str"

\* C10 witness: both date rules matched and both fields were formatted
C10_Witness ==
    /\ pc = "done"
    /\ Len(calls) = 2
    /\ DictGet(data, "Date of Birth") # NA /\ DictGet(data, "Date of Interview") # NA
    /\ DictGet(data, "Date of Immigration") = NA /\ DictGet(data, "Year of Graduation") = NA

(***************************************************************************)
(* Properties of main                                                      *)
(***************************************************************************)
\* C6: the rows are one per entry whose lower-cased name ends in .pdf or
\* .txt, in the order of the listing, whether or not the entry could be read;
\* each row's Sources is the entry's name.
C6_RowsFollowListing ==
    LET done == SubSeq(entries, 1, idx - 1)
        docs == SelectSeq(done, LAMBDA e :
                    \/ EndsWith(LowerStr(e.name), <<".","p","d","f">>)
                    \/ EndsWith(LowerStr(e.name), <<".","t","x","t">>))
    IN  /\ Len(resultados) = Len(docs)
        /\ \A i \in 1..Len(docs) : DictGet(resultados[i], "Sources") = docs[i].name

\* C6 witness: a listing with an unreadable .pdf, a skipped entry and an
\* upper-case suffix has been processed to the end
C6_Witness ==
    /\ pc = "saved"
    /\ Len(entries) = 3 /\ Len(resultados) = 2
    /\ entries[1].name = <<"B",".","P","D","F">> /\ entries[1].failAt # 0
    /\ ~HasDocSuffix(entries[2].name)
    /\ entries[3].failAt # 0
    /\ DictGet(resultados[2], "Sources") = entries[3].name

====
